---- MODULE Spec2Model ----
(***************************************************************************)
(* The kanji pronunciation quiz of app.py as a state machine.              *)
(*                                                                         *)
(* app.py is a Streamlit script: every user event (editing a text field,   *)
(* a value sent by the speech component, a button click) runs the script   *)
(* once from top to bottom against the session state.  One action of this  *)
(* module is one such event together with the whole script run it causes.  *)
(*                                                                         *)
(* Characters are Unicode code points (integers) and strings are           *)
(* sequences of code points, so the regular-expression ranges of the       *)
(* source are the numeric ranges used here.                                *)
(***************************************************************************)
EXTENDS Integers, Sequences, FiniteSets, TLC

\* ------------------------------------------------------------------ bounds

\* The most checks recorded in one explored session.
MaxHist == 2
\* random.choice(KANJI_LIST) is explored over the first MaxDraw keys.
MaxDraw == 2
\* The longest raw input of the normalization study (SpecNorm).
MaxRawLen == 3

\* ------------------------------------------------------- the kanji table

\* kanji code point -> accepted hiragana readings, in source order.
KANJI_MAP ==
       (20154 :> << <<12402, 12392>>, <<12376, 12435>>, <<12395, 12435>> >>)
    @@ (30007 :> << <<12362, 12392, 12371>> >>)
    @@ (22899 :> << <<12362, 12435, 12394>> >>)
    @@ (23376 :> << <<12371>>, <<12375>> >>)
    @@ (27597 :> << <<12399, 12399>>, <<12363, 12354>>, <<12362, 12363, 12354, 12373, 12435>> >>)
    @@ (29238 :> << <<12385, 12385>>, <<12392, 12358>>, <<12362, 12392, 12358, 12373, 12435>> >>)
    @@ (21451 :> << <<12392, 12418>> >>)
    @@ (26085 :> << <<12402>>, <<12395, 12385>>, <<12376, 12388>> >>)
    @@ (26376 :> << <<12388, 12365>>, <<12364, 12388>>, <<12370, 12388>> >>)
    @@ (28779 :> << <<12402>>, <<12363>> >>)
    @@ (27700 :> << <<12415, 12378>>, <<12377, 12356>> >>)
    @@ (26408 :> << <<12365>>, <<12418, 12367>> >>)
    @@ (37329 :> << <<12363, 12397>>, <<12365, 12435>> >>)
    @@ (22303 :> << <<12388, 12385>>, <<12393>> >>)
    @@ (26412 :> << <<12411, 12435>> >>)
    @@ (24029 :> << <<12363, 12431>> >>)
    @@ (33457 :> << <<12399, 12394>> >>)
    @@ (27671 :> << <<12365>>, <<12369>> >>)
    @@ (39770 :> << <<12373, 12363, 12394>>, <<12358, 12362>> >>)
    @@ (22825 :> << <<12390, 12435>> >>)
    @@ (31354 :> << <<12381, 12425>>, <<12367, 12358>> >>)
    @@ (23665 :> << <<12420, 12414>> >>)
    @@ (38632 :> << <<12354, 12417>>, <<12358>> >>)
    @@ (36554 :> << <<12367, 12427, 12414>>, <<12375, 12419>> >>)
    @@ (32819 :> << <<12415, 12415>> >>)
    @@ (25163 :> << <<12390>> >>)
    @@ (36275 :> << <<12354, 12375>>, <<12381, 12367>> >>)
    @@ (30446 :> << <<12417>>, <<12418, 12367>> >>)
    @@ (21475 :> << <<12367, 12385>>, <<12371, 12358>> >>)
    @@ (21517 :> << <<12394>>, <<12417, 12356>> >>)

KANJI_LIST ==
    << 20154, 30007, 22899, 23376, 27597, 29238,
       21451, 26085, 26376, 28779, 27700, 26408,
       37329, 22303, 26412, 24029, 33457, 27671,
       39770, 22825, 31354, 23665, 38632, 36554,
       32819, 25163, 36275, 30446, 21475, 21517 >>

\* ------------------------------------------------------ string primitives

\* str.isspace(): the characters str.strip() trims and \s matches.
IsSpace(c) ==
    \/ c \in 9..13
    \/ c \in 28..32
    \/ c \in {133, 160, 5760, 8232, 8233, 8239, 8287, 12288}
    \/ c \in 8192..8202

RECURSIVE LStrip(_)
LStrip(s) ==
    IF s = <<>> THEN <<>>
    ELSE IF IsSpace(Head(s)) THEN LStrip(Tail(s))
    ELSE s

RECURSIVE RStrip(_)
RStrip(s) ==
    IF s = <<>> THEN <<>>
    ELSE IF IsSpace(s[Len(s)]) THEN RStrip(SubSeq(s, 1, Len(s) - 1))
    ELSE s

\* str.strip()
Strip(s) == RStrip(LStrip(s))

\* str.lower() on one character (the cased characters explored are ASCII).
LowerChar(c) == IF c \in 65..90 THEN c + 32 ELSE c

Lower(s) == [i \in 1..Len(s) |-> LowerChar(s[i])]

\* re.sub(r"\s+", "", s)
RECURSIVE RemoveSpace(_)
RemoveSpace(s) ==
    IF s = <<>> THEN <<>>
    ELSE IF IsSpace(Head(s)) THEN RemoveSpace(Tail(s))
    ELSE <<Head(s)>> \o RemoveSpace(Tail(s))

\* re.search(r"[a-z]", s)
HasLatin(s) == \E i \in 1..Len(s) : s[i] \in 97..122

\* re.search(r"[\u30A0-\u30FF]", s)
HasKatakana(s) == \E i \in 1..Len(s) : s[i] \in 12448..12543

IsKanji(c) == c \in 19968..40959

\* jaconv's romaji conversion on the syllables of the explored alphabet:
\* "ka" -> U+304B, "a" -> U+3042; anything else is left as it is.
RECURSIVE RomajiToHiragana(_)
RomajiToHiragana(s) ==
    IF s = <<>> THEN <<>>
    ELSE IF Len(s) >= 2 /\ s[1] = 107 /\ s[2] = 97
         THEN <<12363>> \o RomajiToHiragana(SubSeq(s, 3, Len(s)))
    ELSE IF s[1] = 97 THEN <<12354>> \o RomajiToHiragana(Tail(s))
    ELSE <<Head(s)>> \o RomajiToHiragana(Tail(s))

\* jaconv.kata2hira: U+30A1..U+30F3 move down by 0x60, the rest is kept.
KataToHira(s) ==
    [i \in 1..Len(s) |-> IF s[i] \in 12449..12531 THEN s[i] - 96 ELSE s[i]]

\* ------------------------------------------------------- normalize_answer

\* normalize_answer without its final re.sub.
normalize_answer_keep_space(user_input, jaconv, romaji) ==
    IF user_input = <<>> THEN <<>>
    ELSE LET s0 == Lower(Strip(user_input))
             s1 == IF HasLatin(s0) /\ jaconv /\ romaji
                   THEN RomajiToHiragana(s0) ELSE s0
         IN  IF HasKatakana(s1) /\ jaconv THEN KataToHira(s1) ELSE s1

\* jaconv: HAS_JACONV; romaji: jaconv has romaji2hiragana or roma2hiragana.
normalize_answer(user_input, jaconv, romaji) ==
    IF user_input = <<>> THEN <<>>
    ELSE LET s0 == Lower(Strip(user_input))
             s1 == IF HasLatin(s0) /\ jaconv /\ romaji
                   THEN RomajiToHiragana(s0) ELSE s0
             s2 == IF HasKatakana(s1) /\ jaconv THEN KataToHira(s1) ELSE s1
         IN  RemoveSpace(s2)

contains_kanji(s) == \E i \in 1..Len(s) : IsKanji(s[i])

\* The rightmost ideograph instead of the leftmost.
RECURSIVE LastKanji(_)
LastKanji(s) ==
    IF IsKanji(s[Len(s)]) THEN s[Len(s)]
    ELSE LastKanji(SubSeq(s, 1, Len(s) - 1))

\* re.search(r"[\u4e00-\u9fff]", s).group(0): the leftmost ideograph.
RECURSIVE FirstKanji(_)
FirstKanji(s) ==
    IF IsKanji(Head(s)) THEN Head(s) ELSE FirstKanji(Tail(s))

\* KANJI_MAP.get(ch, [None])[0] or ""
CanonicalReading(ch) ==
    IF ch \in DOMAIN KANJI_MAP THEN KANJI_MAP[ch][1] ELSE <<>>

InString(ch, s) == \E i \in 1..Len(s) : s[i] = ch

\* The kanji branch without the test for the card's own kanji.
NormalizeCandidateFirstOnly(raw, cur, jaconv, romaji) ==
    IF raw = <<>> THEN <<>>
    ELSE IF contains_kanji(raw) THEN CanonicalReading(FirstKanji(raw))
    ELSE normalize_answer(raw, jaconv, romaji)

\* The normalized answer of a candidate against the current card.
NormalizeCandidate(raw, cur, jaconv, romaji) ==
    IF raw = <<>> THEN <<>>
    ELSE IF contains_kanji(raw)
         THEN IF InString(cur, raw) THEN CanonicalReading(cur)
              ELSE CanonicalReading(FirstKanji(raw))
    ELSE normalize_answer(raw, jaconv, romaji)

\* ------------------------------------------------------------ the session

VARIABLES
    current,                    \* st.session_state.current
    history,                    \* st.session_state.history
    last_transcript,            \* st.session_state.last_transcript
    user_answer,                \* st.session_state.user_answer
    HAS_JACONV,                 \* the jaconv import succeeded
    has_romaji,                 \* jaconv has romaji2hiragana or roma2hiragana
    auto_component_available,   \* declare_component did not raise
    typed_value,                \* value= the typed field was last rendered with
    typed_input,                \* content of the typed field
    pasted_value,               \* value= the paste field was last rendered with
    pasted,                     \* content of the paste field
    transcript_val,             \* value stored for the speech component
    shown,                      \* the kanji in the page's <h1>
    candidate_raw,              \* locals of the last script run
    normalized,
    outcome,                    \* message of the last run's Check Answer
    op,                         \* the event the last script run handled
    latest_capture              \* history variable: the raw input captured last
                                \* since the card was drawn

vars ==
    << current, history, last_transcript, user_answer, HAS_JACONV, has_romaji,
       auto_component_available, typed_value, typed_input, pasted_value,
       pasted, transcript_val, shown, candidate_raw, normalized, outcome, op,
       latest_capture >>

\* The program state as one value (latest_capture is not part of it).
State ==
    [ current |-> current, history |-> history,
      last_transcript |-> last_transcript, user_answer |-> user_answer,
      HAS_JACONV |-> HAS_JACONV, has_romaji |-> has_romaji,
      auto_component_available |-> auto_component_available,
      typed_value |-> typed_value, typed_input |-> typed_input,
      pasted_value |-> pasted_value, pasted |-> pasted,
      transcript_val |-> transcript_val, shown |-> shown,
      candidate_raw |-> candidate_raw, normalized |-> normalized,
      outcome |-> outcome, op |-> op ]

\* The session after the first script run: the init block, every widget
\* rendered once with its default, no button clicked.
Fresh(k, jaconv, romaji, auto) ==
    [ current |-> k, history |-> <<>>,
      last_transcript |-> <<>>, user_answer |-> <<>>,
      HAS_JACONV |-> jaconv, has_romaji |-> romaji,
      auto_component_available |-> auto,
      typed_value |-> <<>>, typed_input |-> <<>>,
      pasted_value |-> <<>>, pasted |-> <<>>,
      transcript_val |-> <<>>, shown |-> k,
      candidate_raw |-> <<>>, normalized |-> <<>>,
      outcome |-> "none", op |-> "start" ]

\* st.text_input(label, value=v) without a key: the widget is identified by
\* its arguments, so it keeps its content while v is the value it was last
\* rendered with and is a new widget showing v otherwise.
TextInput(rendered_with, content, v) ==
    IF v = rendered_with THEN content ELSE v

\* if st.button("New Kanji"): ...
NewKanjiHandler(s, clicked, draw) ==
    IF clicked
    THEN [current |-> draw, last_transcript |-> <<>>, user_answer |-> <<>>]
    ELSE [current |-> s.current, last_transcript |-> s.last_transcript,
          user_answer |-> s.user_answer]

\* The component branch: last_transcript after it (<<>> stands for the
\* component's None as well; both fail the guard).  The component call
\* returns the value stored for it and does not raise, so the except branch
\* that falls back to the paste recorder in mid-run is not taken.
AutoTranscript(val, lt) ==
    IF Strip(val) # <<>> THEN Strip(val) ELSE lt

\* The paste branch: last_transcript after it.
FallbackTranscript(p, lt) ==
    IF p # <<>> /\ Strip(p) # <<>> THEN Strip(p) ELSE lt

\* The typed field taking priority over the transcript.
CandidateRawTypedFirst(transcript_str, typed) ==
    IF Strip(typed) # <<>> THEN Strip(typed) ELSE transcript_str

CandidateRaw(transcript_str, typed) ==
    IF transcript_str # <<>> THEN transcript_str ELSE Strip(typed)

\* normalized in correct_list
InCorrectList(n, cur) ==
    \E i \in 1..Len(KANJI_MAP[cur]) : KANJI_MAP[cur][i] = n

\* The membership test without the test for an empty answer before it.
OutcomeMembershipOnly(n, cur) ==
    IF InCorrectList(n, cur) THEN "correct" ELSE "incorrect"

\* Which message Check Answer shows.
Outcome(n, cur) ==
    IF n = <<>> THEN "empty"
    ELSE IF InCorrectList(n, cur) THEN "correct"
    ELSE "incorrect"

\* The card after cur in KANJI_LIST.
NextCard(cur) ==
    LET i == CHOOSE j \in 1..Len(KANJI_LIST) : KANJI_LIST[j] = cur
    IN  KANJI_LIST[(i % Len(KANJI_LIST)) + 1]

\* A handler that also records an empty answer, as incorrect.
CheckAnswerHandlerRecordsEmpty(cur, hist, cand, n) ==
    [ current |-> cur,
      user_answer |-> cand,
      outcome |-> Outcome(n, cur),
      history |-> Append(hist, <<cur, n, InCorrectList(n, cur)>>) ]

\* A handler that moves on to another card after a correct answer.
CheckAnswerHandlerAdvances(cur, hist, cand, n) ==
    [ current |-> IF InCorrectList(n, cur) THEN NextCard(cur) ELSE cur,
      user_answer |-> cand,
      outcome |-> Outcome(n, cur),
      history |-> IF n = <<>> THEN hist
                  ELSE Append(hist, <<cur, n, InCorrectList(n, cur)>>) ]

\* A handler that puts the newest attempt first.
CheckAnswerHandlerPrepends(cur, hist, cand, n) ==
    [ current |-> cur,
      user_answer |-> cand,
      outcome |-> Outcome(n, cur),
      history |-> IF n = <<>> THEN hist
                  ELSE << <<cur, n, InCorrectList(n, cur)>> >> \o hist ]

\* if st.button("Check Answer"): ... on the session state.
CheckAnswerHandler(cur, hist, cand, n) ==
    [ current |-> cur,
      user_answer |-> cand,
      outcome |-> Outcome(n, cur),
      history |-> IF n = <<>> THEN hist
                  ELSE IF InCorrectList(n, cur)
                       THEN Append(hist, <<cur, n, TRUE>>)
                  ELSE Append(hist, <<cur, n, FALSE>>) ]

\* One run of the script for event ev on state s.
\*   ev.kind: "type" | "paste" | "send" | "new" | "check" | "play"
\*   ev.text: the new content of the edited widget; ev.draw: random.choice
ScriptRun(s, ev) ==
    LET typed0 == IF ev.kind = "type" THEN ev.text ELSE s.typed_input
        pasted0 == IF ev.kind = "paste" THEN ev.text ELSE s.pasted
        val == IF ev.kind = "send" THEN ev.text ELSE s.transcript_val
        heading == s.current
        nk == NewKanjiHandler(s, ev.kind = "new", ev.draw)
        typed == TextInput(s.typed_value, typed0, nk.user_answer)
        auto == s.auto_component_available
        p == IF auto THEN s.pasted
             ELSE TextInput(s.pasted_value, pasted0, nk.last_transcript)
        lt == IF auto THEN AutoTranscript(val, nk.last_transcript)
              ELSE FallbackTranscript(p, nk.last_transcript)
        cand == CandidateRaw(lt, typed)
        n == NormalizeCandidate(cand, nk.current, s.HAS_JACONV, s.has_romaji)
        chk == IF ev.kind = "check"
               THEN CheckAnswerHandler(nk.current, s.history, cand, n)
               ELSE [current |-> nk.current, user_answer |-> nk.user_answer,
                     outcome |-> "none", history |-> s.history]
    IN  [ current |-> chk.current, history |-> chk.history,
          last_transcript |-> lt, user_answer |-> chk.user_answer,
          HAS_JACONV |-> s.HAS_JACONV, has_romaji |-> s.has_romaji,
          auto_component_available |-> auto,
          typed_value |-> nk.user_answer, typed_input |-> typed,
          pasted_value |-> IF auto THEN s.pasted_value ELSE nk.last_transcript,
          pasted |-> p,
          transcript_val |-> val, shown |-> heading,
          candidate_raw |-> cand, normalized |-> n,
          outcome |-> chk.outcome, op |-> ev.kind ]

Event(kind, text, draw) == [kind |-> kind, text |-> text, draw |-> draw]

StartsAs(r) ==
    /\ current = r.current
    /\ history = r.history
    /\ last_transcript = r.last_transcript
    /\ user_answer = r.user_answer
    /\ HAS_JACONV = r.HAS_JACONV
    /\ has_romaji = r.has_romaji
    /\ auto_component_available = r.auto_component_available
    /\ typed_value = r.typed_value
    /\ typed_input = r.typed_input
    /\ pasted_value = r.pasted_value
    /\ pasted = r.pasted
    /\ transcript_val = r.transcript_val
    /\ shown = r.shown
    /\ candidate_raw = r.candidate_raw
    /\ normalized = r.normalized
    /\ outcome = r.outcome
    /\ op = r.op

Becomes(r) ==
    /\ current' = r.current
    /\ history' = r.history
    /\ last_transcript' = r.last_transcript
    /\ user_answer' = r.user_answer
    /\ HAS_JACONV' = r.HAS_JACONV
    /\ has_romaji' = r.has_romaji
    /\ auto_component_available' = r.auto_component_available
    /\ typed_value' = r.typed_value
    /\ typed_input' = r.typed_input
    /\ pasted_value' = r.pasted_value
    /\ pasted' = r.pasted
    /\ transcript_val' = r.transcript_val
    /\ shown' = r.shown
    /\ candidate_raw' = r.candidate_raw
    /\ normalized' = r.normalized
    /\ outcome' = r.outcome
    /\ op' = r.op

\* ----------------------------------------------------------------- inputs

\* The cards random.choice may draw in the session study.
Choices == {KANJI_LIST[i] : i \in 1..MaxDraw}

\* What the user types, pastes or says in the session study: nothing, an
\* ideographic space, "hito" in hiragana, and the kanji U+4EBA.
SessionInputs ==
    { <<>>, <<12288>>, <<12402, 12392>>, <<20154>> }

\* jaconv absent; present without a romaji function; present with one.
Environments == { <<FALSE, FALSE>>, <<TRUE, FALSE>>, <<TRUE, TRUE>> }

\* ---------------------------------------------------------------- actions

Init ==
    /\ \E k \in Choices, e \in Environments, auto \in BOOLEAN :
           StartsAs(Fresh(k, e[1], e[2], auto))
    /\ latest_capture = <<>>

\* The user edits the "Or type reading" field.
TypeReading ==
    \E t \in SessionInputs :
        /\ t # typed_input
        /\ Becomes(ScriptRun(State, Event("type", t, current)))
        /\ latest_capture' = t

\* The user edits the "Paste transcript here" field (fallback recorder).
PasteTranscript ==
    /\ ~auto_component_available
    /\ \E t \in SessionInputs :
        /\ t # pasted
        /\ Becomes(ScriptRun(State, Event("paste", t, current)))
        /\ latest_capture' = t

\* The speech component sends a transcript (Send to App).
SendToApp ==
    /\ auto_component_available
    /\ \E t \in SessionInputs :
        /\ t # transcript_val
        /\ Becomes(ScriptRun(State, Event("send", t, current)))
        /\ latest_capture' = t

ClickNewKanji ==
    \E k \in Choices :
        /\ Becomes(ScriptRun(State, Event("new", <<>>, k)))
        /\ latest_capture' = <<>>

ClickCheck ==
    /\ Len(history) < MaxHist
    /\ Becomes(ScriptRun(State, Event("check", <<>>, current)))
    /\ UNCHANGED latest_capture

\* Play correct reading: emits a script tag and changes no state.
ClickPlay ==
    /\ Becomes(ScriptRun(State, Event("play", <<>>, current)))
    /\ UNCHANGED latest_capture

Next ==
    \/ TypeReading
    \/ PasteTranscript
    \/ SendToApp
    \/ ClickNewKanji
    \/ ClickCheck
    \/ ClickPlay

Spec == Init /\ [][Next]_vars

\* ------------------------------------------------- the normalization study

\* A table kanji other than k.
OtherKanji(k) == IF k = KANJI_LIST[1] THEN KANJI_LIST[2] ELSE KANJI_LIST[1]

\* The card's kanji, another table kanji, U+9B31 (an ideograph outside the
\* table), "A", katakana KA, hiragana KA and a space.
RawAlphabet(k) == {k, OtherKanji(k), 39729, 65, 12459, 12363, 32}

RawInputs(k) == UNION {[1..n -> RawAlphabet(k)] : n \in 0..MaxRawLen}

AllKanji == {KANJI_LIST[i] : i \in 1..Len(KANJI_LIST)}

\* Any card of the table, and a session in which one raw input has just
\* been captured, through the typed field or as a transcript.
InitNorm ==
    \E k \in AllKanji, e \in Environments, auto \in BOOLEAN,
       viaTyped \in BOOLEAN :
        \E raw \in RawInputs(k) :
            /\ StartsAs(
                 IF raw = <<>> THEN Fresh(k, e[1], e[2], auto)
                 ELSE ScriptRun(Fresh(k, e[1], e[2], auto),
                                Event(IF viaTyped THEN "type"
                                      ELSE IF auto THEN "send" ELSE "paste",
                                      raw, k)))
            /\ latest_capture = raw

NextNorm ==
    \/ ClickCheck

SpecNorm == InitNorm /\ [][NextNorm]_vars

\* ----------------------------------------------------------------- claims

\* correct_list as a set.
AcceptedReadings(k) == {KANJI_MAP[k][i] : i \in 1..Len(KANJI_MAP[k])}

\* U+3040..U+309F
OnlyHiragana(s) == \A i \in 1..Len(s) : s[i] \in 12352..12447

NoSpace(s) == \A i \in 1..Len(s) : ~IsSpace(s[i])

\* C1 as stated: every Check Answer click, whatever the candidate, even an
\* empty or unresolvable one, makes history one tuple longer.
C1_EveryCheckAppends ==
    [][op' = "check" => Len(history') = Len(history) + 1]_vars

\* C1 amended: a Check Answer click makes history exactly one tuple longer
\* when the normalized answer is not empty, and leaves history as it is when
\* the normalized answer is empty.
C1_CheckAppendsUnlessEmpty ==
    [][op' = "check" =>
        IF normalized' # <<>>
        THEN Len(history') = Len(history) + 1
        ELSE history' = history]_vars

\* A check of an empty answer, after an earlier check that was recorded.
C1_Witness == op = "check" /\ outcome = "empty" /\ Len(history) = 1

\* C2: the outcome of a check is one of empty, correct, incorrect; it is
\* empty exactly when the normalized answer is the empty string and correct
\* exactly when the normalized answer is non-empty and one of the current
\* card's accepted readings; so an empty answer is never correct and never
\* incorrect.
C2_TriState ==
    op = "check" =>
        /\ outcome \in {"empty", "correct", "incorrect"}
        /\ outcome = "empty" <=> normalized = <<>>
        /\ outcome = "correct" <=>
               (normalized # <<>> /\ normalized \in AcceptedReadings(current))

\* A katakana answer scored correct.
C2_Witness ==
    /\ op = "check"
    /\ outcome = "correct"
    /\ HasKatakana(candidate_raw)

\* C3: a candidate that contains the current card's own kanji, anywhere in
\* it, normalizes to the card's first reading, and a check of it is scored
\* correct and recorded as correct.
C3_OwnKanjiIsCorrect ==
    InString(current, candidate_raw) =>
        /\ normalized = KANJI_MAP[current][1]
        /\ op = "check" =>
               /\ outcome = "correct"
               /\ history[Len(history)] = <<current, normalized, TRUE>>

\* The card's kanji checked after another kanji of the table in the input.
C3_Witness ==
    /\ op = "check"
    /\ Len(candidate_raw) = 2
    /\ candidate_raw[1] = OtherKanji(current)
    /\ candidate_raw[2] = current
    /\ outcome = "correct"

\* C4 as stated: whatever the input and the backend, the normalized answer
\* that is compared and recorded holds only hiragana code points.
C4_OnlyHiragana == op = "check" => OnlyHiragana(normalized)

\* C4 amended: the normalized answer never holds whitespace; it holds only
\* hiragana when the candidate contains an ideograph or consists of hiragana
\* and whitespace; without jaconv a candidate with no ideograph is only
\* lowercased and rid of its whitespace, so its Latin letters and katakana
\* stay in the normalized answer.
C4_NoSpaceHiraganaKept ==
    /\ NoSpace(normalized)
    /\ ( \/ contains_kanji(candidate_raw)
         \/ \A i \in 1..Len(candidate_raw) :
                candidate_raw[i] \in 12352..12447 \/ IsSpace(candidate_raw[i]) )
       => OnlyHiragana(normalized)
    /\ (~HAS_JACONV /\ ~contains_kanji(candidate_raw))
       => normalized = RemoveSpace(Lower(candidate_raw))

\* Two hiragana with a space between them, checked.
C4_Witness ==
    /\ op = "check"
    /\ Len(candidate_raw) = 3
    /\ candidate_raw[2] = 32
    /\ normalized = <<12363, 12363>>

\* C5 as stated: the input that is checked is the most recently captured
\* one, so a reading typed after a transcript was captured is the one
\* checked.
C5_LatestCaptureChecked ==
    (op = "check" /\ Strip(latest_capture) # <<>>)
        => candidate_raw = Strip(latest_capture)

\* C5 amended: the input that is checked is the stored transcript whenever
\* one is stored, also when the typed field was edited after it; the
\* trimmed typed field is checked only when no transcript is stored.
C5_TranscriptBeforeTyped ==
    op = "check" =>
        /\ candidate_raw = IF last_transcript # <<>> THEN last_transcript
                           ELSE Strip(typed_input)
        /\ user_answer = candidate_raw

\* A check with a transcript stored and a different reading typed after it.
C5_Witness ==
    /\ op = "check"
    /\ last_transcript # <<>>
    /\ latest_capture = typed_input
    /\ Strip(typed_input) # <<>>
    /\ Strip(typed_input) # last_transcript

\* C6: at the end of the script run that handles a New Kanji click,
\* last_transcript is empty.
C6_NewKanjiClearsTranscript == op = "new" => last_transcript = <<>>

\* C7: at the end of every script run the kanji on the page is the
\* session's current kanji.
C7_ShownIsCurrent == shown = current

\* C8: a check never changes the current card, and the current card changes
\* only in a New Kanji run, to some entry of the table.
C8_OnlyNewKanjiChangesCurrent ==
    [][ /\ op' = "check" => current' = current
        /\ current' # current =>
               (op' = "new" /\ current' \in DOMAIN KANJI_MAP) ]_vars

\* Two recorded checks of two different cards, the later one just made.
C8_Witness ==
    /\ op = "check"
    /\ Len(history) = 2
    /\ history[1][1] # history[2][1]
    /\ current = history[2][1]

\* C9: history starts empty, and every step either leaves it as it is or
\* is a check that adds at its end the tuple of the current card, the
\* normalized answer checked, and whether that answer is one of the card's
\* accepted readings.
C9_HistoryAppendOnly ==
    /\ history = <<>>
    /\ [][ \/ history' = history
           \/ /\ op' = "check"
              /\ history' =
                   Append(history,
                          <<current, normalized',
                            normalized' \in AcceptedReadings(current)>>) ]_vars

\* A correct attempt and then an incorrect one on record, and a later edit.
C9_Witness ==
    /\ Len(history) = 2
    /\ history[1][3]
    /\ ~history[2][3]
    /\ op = "type"

\* C10: for a candidate with an ideograph but not the current card's, the
\* normalized answer is the first reading of the leftmost ideograph when
\* the table has it and empty when it has not, whatever else is in the
\* candidate.
C10_LeftmostIdeographDecides ==
    (contains_kanji(candidate_raw) /\ ~InString(current, candidate_raw)) =>
        LET i == CHOOSE j \in 1..Len(candidate_raw) :
                     /\ IsKanji(candidate_raw[j])
                     /\ \A h \in 1..(j - 1) : ~IsKanji(candidate_raw[h])
            k == candidate_raw[i]
        IN  normalized = IF k \in DOMAIN KANJI_MAP THEN KANJI_MAP[k][1]
                         ELSE <<>>

\* A Latin letter, then a table kanji, then an ideograph outside the table.
C10_Witness ==
    /\ op = "check"
    /\ candidate_raw = <<65, OtherKanji(current), 39729>>
    /\ normalized = KANJI_MAP[OtherKanji(current)][1]

====
